---- MODULE Spec2Model ----
(***************************************************************************)
(* The binding and concurrency bridge of src/src/lib.rs: one Database      *)
(* handle, the Statements prepared from it, the Rows cursors they produce, *)
(* the host callback thread and the background tasks spawned on the tokio  *)
(* runtime.  Every tokio Mutex is a lock with an owner; every engine call  *)
(* (sync, execute_batch, prepare, execute, query, next) has a begin and an *)
(* end so that two calls can be seen to overlap.                           *)
(***************************************************************************)
EXTENDS Integers, Sequences, FiniteSets, TLC

\* Bounds of the model.
MaxTasks == 2
MaxStmts == 2
MaxRows == 2
MaxCalls == 4
MaxDelta == 3
MaxCode == 7200

Tasks == 1..MaxTasks
Stmts == 1..MaxStmts

\* Threads.  The host callback thread and the background tasks.
HostT == <<"host", 0>>
TaskT(t) == <<"task", t>>
Free == <<"free", 0>>

\* The three kinds of tokio Mutex of the program.
DbLock == <<"db", 0>>
ConnLock == <<"conn", 0>>
StmtLock(s) == <<"stmt", s>>
LockIds == {DbLock, ConnLock} \cup {StmtLock(s) : s \in Stmts}

\* Result<_, libsql::Error> of an engine call.
Outcomes == {"Ok", "Err"}

VARIABLES
    calls,       \* number of calls the host program has made
    dbConn,      \* Database.conn: "Some" or "None"
    default_safe_integers,  \* Database.default_safe_integers
    autocommit,  \* the engine Connection's is_autocommit()
    RUNTIME,     \* the static OnceCell<Runtime>: "empty" or "set"
    nRuntimes,   \* number of Runtimes that Runtime::new has built
    locks,       \* owner of every Mutex
    stmts,       \* the boxed Statements, in creation order
    rows,        \* the boxed Rows cursors, in creation order
    task,        \* the background tasks spawned by rt.spawn
    nTasks,      \* number of tasks spawned so far
    channel,     \* closures sent by deferred.settle_with, not yet run
    promise,     \* state of the promise returned by each async call
    delivered,   \* per promise, the calls whose result was delivered to it
    hostObjs,    \* per async call, the threads on which its host objects were made
    host,        \* the host thread: the call it is inside, where, and
                 \* what it returned
    conv         \* one evaluation of a conversion function: its input and
                 \* its result

vars == <<calls, dbConn, default_safe_integers, autocommit, RUNTIME, nRuntimes,
          locks, stmts, rows, task, nTasks, channel, promise, delivered,
          hostObjs, host, conv>>

IdleHost == [pc |-> "idle", op |-> "none", s |-> 0, arg |-> "none",
             val |-> "none", closed |-> FALSE, res |-> "none"]
NoTask == [kind |-> "none", pc |-> "none", s |-> 0, sql |-> "none",
           outcome |-> "none",
           ncols |-> 0, raw |-> FALSE, safe_ints |-> FALSE, era |-> "open"]
NoConv == [fn |-> "none", in |-> << >>, out |-> << >>, done |-> FALSE]

\* Database::new: the Connection is there and the safe-integer default is off;
\* a new Connection is in autocommit mode, and the js_open that made the
\* Database has built the Runtime.
Constructed ==
    /\ calls = 0
    /\ dbConn = "Some"
    /\ default_safe_integers = FALSE
    /\ autocommit = TRUE
    /\ RUNTIME = "set"
    /\ nRuntimes = 1
    /\ locks = [l \in LockIds |-> Free]
    /\ stmts = << >>
    /\ rows = << >>
    /\ task = [t \in Tasks |-> NoTask]
    /\ nTasks = 0
    /\ channel = << >>
    /\ promise = [t \in Tasks |-> "none"]
    /\ delivered = [t \in Tasks |-> << >>]
    /\ hostObjs = [t \in Tasks |-> {}]
    /\ host = IdleHost

Init == Constructed /\ conv = NoConv

\* The process after the module is loaded and before any open: there is no
\* Database handle and the OnceCell of runtime() is empty.
Loaded ==
    /\ calls = 0
    /\ dbConn = "Unopened"
    /\ default_safe_integers = FALSE
    /\ autocommit = TRUE
    /\ RUNTIME = "empty"
    /\ nRuntimes = 0
    /\ locks = [l \in LockIds |-> Free]
    /\ stmts = << >>
    /\ rows = << >>
    /\ task = [t \in Tasks |-> NoTask]
    /\ nTasks = 0
    /\ channel = << >>
    /\ promise = [t \in Tasks |-> "none"]
    /\ delivered = [t \in Tasks |-> << >>]
    /\ hostObjs = [t \in Tasks |-> {}]
    /\ host = IdleHost

(***************************************************************************)
(* Helpers                                                                 *)
(***************************************************************************)
Closed == dbConn = "None"

\* Database::get_conn: conn.as_ref().unwrap().clone() panics on None.
get_conn == IF dbConn = "Some" THEN "Ok" ELSE "Panic"

\* tokio Mutex::lock / blocking_lock: granted only when nobody holds it.
CanLock(l) == locks[l] = Free

\* (Variant with a slip: exec_async locking db.db instead of the Connection.)
TaskLock_ExecOnDb(kind, s) ==
    CASE kind = "sync" -> DbLock
      [] kind = "exec" -> DbLock
      [] kind = "prepare" -> ConnLock
      [] kind = "rows" -> StmtLock(s)

\* The Mutex a background task locks around its engine call.
TaskLock(kind, s) ==
    CASE kind = "sync" -> DbLock
      [] kind = "exec" -> ConnLock
      [] kind = "prepare" -> ConnLock
      [] kind = "rows" -> StmtLock(s)

\* The Mutex a blocking call of the host thread locks around its engine call.
HostLock(op, s) ==
    CASE op = "syncSync" -> DbLock
      [] op \in {"execSync", "prepareSync", "inTransaction"} -> ConnLock
      [] op \in {"run", "get", "rowsSync", "rowsAsync", "raw", "columns"} ->
            StmtLock(s)

\* The async calls still to deliver a Statement / a Rows cursor.
Pending(kind) == {t \in Tasks : task[t].kind = kind /\ promise[t] = "pending"}

\* The host thread is between two calls, and the host program has a
\* Database handle to make calls on.
HostIdle == host.pc = "idle" /\ dbConn # "Unopened"

\* The host program makes a new call; it makes at most MaxCalls of them.
NewCall == calls < MaxCalls /\ calls' = calls + 1

HostBegin(op, s, arg, pc) ==
    /\ NewCall
    /\ host' = [pc |-> pc, op |-> op, s |-> s, arg |-> arg, val |-> "none",
                closed |-> Closed, res |-> "none"]

\* The host program calls run, get or rows: params is an array or a keyed
\* mapping (arg), holding a value of kind val for the statement's parameter,
\* or, for a mapping, no entry for it at all.
HostBeginParams(op, s, arg, val) ==
    /\ NewCall
    /\ host' = [pc |-> "params", op |-> op, s |-> s, arg |-> arg, val |-> val,
                closed |-> Closed, res |-> "none"]

\* The host call returns (or throws) res and the host thread is idle again.
HostReturn(res) ==
    /\ calls' = calls
    /\ host' = [IdleHost EXCEPT !.pc = "returned", !.op = host.op,
                                !.closed = host.closed, !.res = res]

\* A call that starts and ends in one step of the host thread.
HostAtomic(op, res) ==
    /\ NewCall
    /\ host' = [IdleHost EXCEPT !.pc = "returned", !.op = op, !.closed = Closed,
                                !.res = res]

\* rt.spawn: a new background task, and the promise handed back to the host.
Spawn(kind, s, sql, raw, safe_ints) ==
    /\ nTasks < MaxTasks
    /\ nTasks' = nTasks + 1
    /\ task' = [task EXCEPT ![nTasks + 1] =
                  [kind |-> kind, pc |-> "waiting", s |-> s, sql |-> sql,
                   outcome |-> "none",
                   ncols |-> 0, raw |-> raw, safe_ints |-> safe_ints,
                   era |-> IF Closed THEN "closed" ELSE "open"]]
    /\ promise' = [promise EXCEPT ![nTasks + 1] = "pending"]

\* What is the process's and not the Database's.
procVars == <<conv, RUNTIME, nRuntimes>>
\* What every step but close(), defaultSafeIntegers(), the end of an
\* execute_batch and a conversion leaves alone.
dbVars == <<dbConn, default_safe_integers, autocommit, procVars>>
objVars == <<stmts, rows>>
StmtIds == 1..Len(stmts)
RowsIds == 1..Len(rows)
taskVars == <<task, nTasks, promise>>
chanVars == <<channel, delivered, hostObjs>>

\* The calls that call raw_stmt.reset() between taking the Statement's Mutex
\* and the engine call: js_run and js_rows_sync do, js_get does not.
ResetsOnEntry == {"run", "rowsSync"}

\* libsql::Statement::reset: the engine statement is back at its start.
reset(s) == [stmts EXCEPT ![s].pos = "fresh"]

\* The engine statement has been stepped (execute, or next() of a cursor made
\* from it) and not reset since.
stepped(s) == [stmts EXCEPT ![s].pos = "stepped"]

\* The host thread, blocked in lock().await / blocking_lock(), gets the Mutex
\* and enters the engine call, after the reset() of the calls that have one.
HostAcquire(op) ==
    /\ host.op = op
    /\ host.pc = "lock"
    /\ CanLock(HostLock(op, host.s))
    /\ locks' = [locks EXCEPT ![HostLock(op, host.s)] = HostT]
    /\ host' = [host EXCEPT !.pc = "engine"]
    /\ stmts' = IF op \in ResetsOnEntry THEN reset(host.s) ELSE stmts
    /\ UNCHANGED <<calls, dbVars, rows, taskVars, chanVars>>

\* A Statement as Database::js_prepare_* builds it: raw starts false and
\* safe_ints starts as the value read from db.default_safe_integers; the
\* engine's statement has not been stepped.
NewStatement(ncols, safe_ints) ==
    [ncols |-> ncols, raw |-> FALSE, safe_ints |-> safe_ints, pos |-> "fresh"]

(***************************************************************************)
(* Database handle                                                         *)
(***************************************************************************)
\* (Variant with a slip: a Runtime built by every call, with no cell.)
runtime_built_by_every_call(built) ==
    /\ RUNTIME' = IF built THEN "set" ELSE RUNTIME
    /\ nRuntimes' = IF built THEN nRuntimes + 1 ELSE nRuntimes

\* runtime(): RUNTIME.get_or_try_init(Runtime::new).  A cell that is set is
\* returned as it is; on an empty cell Runtime::new is called, and the cell is
\* set only if that succeeded (built).
runtime(built) ==
    /\ RUNTIME' = IF RUNTIME = "set" \/ built THEN "set" ELSE "empty"
    /\ nRuntimes' = IF RUNTIME = "empty" /\ built THEN nRuntimes + 1
                                                 ELSE nRuntimes

\* Whether runtime() hands out a Runtime, or throws the error of Runtime::new.
RuntimeOk(built) == RUNTIME = "set" \/ built

\* Database::js_open: runtime(), then the database is built and connected;
\* each of the three can fail, and only the last success boxes a Database.
js_open ==
    /\ host.pc = "idle"
    /\ dbConn = "Unopened"
    /\ \E built \in BOOLEAN, opened \in Outcomes :
          /\ runtime(built)
          /\ IF ~RuntimeOk(built)
             THEN HostAtomic("open", "RuntimeErr") /\ dbConn' = dbConn
             ELSE IF opened = "Err"
             THEN HostAtomic("open", "Err") /\ dbConn' = dbConn
             ELSE HostAtomic("open", "Ok") /\ dbConn' = "Some"
    /\ UNCHANGED <<default_safe_integers, autocommit, conv, locks, objVars,
                   taskVars, chanVars>>

\* Database::js_open_with_rpc_sync: the arguments, runtime(), then
\* block_on(open_with_remote_sync_internal) and connect.
js_open_with_rpc_sync ==
    /\ host.pc = "idle"
    /\ dbConn = "Unopened"
    /\ \E built \in BOOLEAN, opened \in Outcomes :
          /\ runtime(built)
          /\ IF ~RuntimeOk(built)
             THEN HostAtomic("openWithRpcSync", "RuntimeErr") /\ dbConn' = dbConn
             ELSE IF opened = "Err"
             THEN HostAtomic("openWithRpcSync", "Err") /\ dbConn' = dbConn
             ELSE HostAtomic("openWithRpcSync", "Ok") /\ dbConn' = "Some"
    /\ UNCHANGED <<default_safe_integers, autocommit, conv, locks, objVars,
                   taskVars, chanVars>>

\* Database::js_close: db.conn.replace(None); nothing else is touched.
\* (The era of a task is bookkeeping: it remembers where the task stood when
\* close() was called, and the task itself is left alone.)
EraAtClose(t) ==
    IF promise[t] = "pending" /\ task[t].era = "open"
    THEN CASE task[t].pc = "waiting" -> "closed_while_waiting"
           [] task[t].pc = "engine" -> "closed_in_engine"
           [] task[t].pc = "done" -> "closed_after_engine"
    ELSE task[t].era

\* A close() that also cancelled the futures that have not started their
\* engine call (what the code does not do).
js_close_cancelling ==
    /\ HostIdle
    /\ dbConn' = "None"
    /\ HostAtomic("close", "Ok")
    /\ task' = [t \in Tasks |->
                  IF task[t].pc = "waiting"
                  THEN [task[t] EXCEPT !.era = EraAtClose(t), !.pc = "cancelled"]
                  ELSE [task[t] EXCEPT !.era = EraAtClose(t)]]
    /\ UNCHANGED <<default_safe_integers, autocommit, procVars, locks, objVars,
                   nTasks, promise, chanVars>>

js_close ==
    /\ HostIdle
    /\ dbConn' = "None"
    /\ HostAtomic("close", "Ok")
    /\ task' = [t \in Tasks |-> [task[t] EXCEPT !.era = EraAtClose(t)]]
    /\ UNCHANGED <<default_safe_integers, autocommit, procVars, locks, objVars,
                   nTasks, promise, chanVars>>

\* (Variant with a slip: is_autocommit() returned without the negation.)
js_in_transaction_unnegated ==
    \/ /\ HostIdle
       /\ get_conn = "Panic"
       /\ HostAtomic("inTransaction", "Panic")
       /\ UNCHANGED <<dbVars, locks, objVars, taskVars, chanVars>>
    \/ /\ HostIdle
       /\ get_conn = "Ok"
       /\ HostBegin("inTransaction", 0, "none", "lock")
       /\ UNCHANGED <<dbVars, locks, objVars, taskVars, chanVars>>
    \/ /\ host.op = "inTransaction"
       /\ host.pc = "lock"
       /\ CanLock(ConnLock)
       /\ HostReturn(IF autocommit THEN "true" ELSE "false")
       /\ UNCHANGED <<dbVars, locks, objVars, taskVars, chanVars>>

\* Database::js_in_transaction: unwrap of db.conn, then blocking_lock of the
\* Connection for the one is_autocommit() read, returned negated.
js_in_transaction ==
    \/ /\ HostIdle
       /\ get_conn = "Panic"
       /\ HostAtomic("inTransaction", "Panic")
       /\ UNCHANGED <<dbVars, locks, objVars, taskVars, chanVars>>
    \/ /\ HostIdle
       /\ get_conn = "Ok"
       /\ HostBegin("inTransaction", 0, "none", "lock")
       /\ UNCHANGED <<dbVars, locks, objVars, taskVars, chanVars>>
    \/ /\ host.op = "inTransaction"
       /\ host.pc = "lock"
       /\ CanLock(ConnLock)
       /\ HostReturn(IF autocommit THEN "false" ELSE "true")
       /\ UNCHANGED <<dbVars, locks, objVars, taskVars, chanVars>>

\* Database::js_sync_sync: uses db.db only; db.conn is never looked at.
js_sync_sync ==
    \/ /\ HostIdle
       /\ HostBegin("syncSync", 0, "none", "lock")
       /\ UNCHANGED <<dbVars, locks, objVars, taskVars, chanVars>>
    \/ HostAcquire("syncSync")
    \/ /\ host.op = "syncSync"
       /\ host.pc = "engine"
       /\ \E out \in Outcomes : HostReturn(out)
       /\ locks' = [locks EXCEPT ![DbLock] = Free]
       /\ UNCHANGED <<dbVars, objVars, taskVars, chanVars>>

\* Database::js_sync_async: spawns the task on db.db; db.conn is never looked at.
js_sync_async ==
    /\ HostIdle
    /\ Spawn("sync", 0, "none", FALSE, FALSE)
    /\ HostAtomic("syncAsync", "Promise")
    /\ UNCHANGED <<dbVars, locks, objVars, chanVars>>

\* The SQL texts given to exec: one that begins a transaction, one that ends
\* it, and one that does neither.
TxnSql == {"BEGIN", "COMMIT", "INSERT"}
\* The SQL of a host program that leaves transactions alone.
PlainSql == {"INSERT"}

\* Connection::execute_batch(sql) of the engine: the pairs of its outcome and
\* of is_autocommit() after it.  BEGIN succeeds only outside a transaction
\* and COMMIT only inside one; a failed call leaves the mode as it was.
execute_batch(sql, auto) ==
    CASE sql = "BEGIN" -> IF auto THEN {<<"Ok", FALSE>>, <<"Err", TRUE>>}
                                  ELSE {<<"Err", FALSE>>}
      [] sql = "COMMIT" -> IF auto THEN {<<"Err", TRUE>>}
                                   ELSE {<<"Ok", TRUE>>, <<"Err", FALSE>>}
      [] OTHER -> {<<"Ok", auto>>, <<"Err", auto>>}

\* Database::js_exec_sync
js_exec_sync(sqls) ==
    \/ /\ HostIdle
       /\ get_conn = "Panic"
       /\ HostAtomic("execSync", "Panic")
       /\ UNCHANGED <<dbVars, locks, objVars, taskVars, chanVars>>
    \/ /\ HostIdle
       /\ get_conn = "Ok"
       /\ \E sql \in sqls : HostBegin("execSync", 0, sql, "lock")
       /\ UNCHANGED <<dbVars, locks, objVars, taskVars, chanVars>>
    \/ HostAcquire("execSync")
    \/ /\ host.op = "execSync"
       /\ host.pc = "engine"
       /\ \E r \in execute_batch(host.arg, autocommit) :
             /\ HostReturn(r[1])
             /\ autocommit' = r[2]
       /\ locks' = [locks EXCEPT ![ConnLock] = Free]
       /\ UNCHANGED <<dbConn, default_safe_integers, procVars, objVars, taskVars,
                      chanVars>>

\* Database::js_exec_async
js_exec_async(sqls) ==
    \/ /\ HostIdle
       /\ get_conn = "Panic"
       /\ HostAtomic("execAsync", "Panic")
       /\ UNCHANGED <<dbVars, locks, objVars, taskVars, chanVars>>
    \/ /\ HostIdle
       /\ get_conn = "Ok"
       /\ \E sql \in sqls : Spawn("exec", 0, sql, FALSE, FALSE)
       /\ HostAtomic("execAsync", "Promise")
       /\ UNCHANGED <<dbVars, locks, objVars, chanVars>>

\* Database::js_prepare_sync
js_prepare_sync ==
    \/ /\ HostIdle
       /\ get_conn = "Panic"
       /\ HostAtomic("prepareSync", "Panic")
       /\ UNCHANGED <<dbVars, locks, objVars, taskVars, chanVars>>
    \/ /\ HostIdle
       /\ get_conn = "Ok"
       /\ Len(stmts) + Cardinality(Pending("prepare")) < MaxStmts
       /\ HostBegin("prepareSync", 0, "none", "lock")
       /\ UNCHANGED <<dbVars, locks, objVars, taskVars, chanVars>>
    \/ HostAcquire("prepareSync")
    \/ /\ host.op = "prepareSync"
       /\ host.pc = "engine"
       /\ \/ /\ HostReturn("Err")
             /\ stmts' = stmts
          \/ /\ HostReturn("Ok")
             /\ \E n \in {0, 1} : stmts' = Append(stmts, NewStatement(n, default_safe_integers))
       /\ locks' = [locks EXCEPT ![ConnLock] = Free]
       /\ UNCHANGED <<dbVars, rows, taskVars, chanVars>>

\* Database::js_prepare_async
js_prepare_async ==
    \/ /\ HostIdle
       /\ get_conn = "Panic"
       /\ HostAtomic("prepareAsync", "Panic")
       /\ UNCHANGED <<dbVars, locks, objVars, taskVars, chanVars>>
    \/ /\ HostIdle
       /\ get_conn = "Ok"
       /\ Len(stmts) + Cardinality(Pending("prepare")) < MaxStmts
       /\ Spawn("prepare", 0, "none", FALSE, default_safe_integers)
       /\ HostAtomic("prepareAsync", "Promise")
       /\ UNCHANGED <<dbVars, locks, objVars, chanVars>>

\* (Variant with a slip: the new default pushed into the Statements that
\* already exist.)
js_default_safe_integers_retroactive ==
    /\ HostIdle
    /\ \E toggle \in BOOLEAN :
          /\ default_safe_integers' = toggle
          /\ stmts' = [s \in StmtIds |-> [stmts[s] EXCEPT !.safe_ints = toggle]]
    /\ HostAtomic("defaultSafeIntegers", "Ok")
    /\ UNCHANGED <<dbConn, autocommit, procVars, locks, rows, taskVars, chanVars>>

\* Database::js_default_safe_integers: set_default_safe_integers(toggle)
\* replaces db.default_safe_integers and nothing else.
js_default_safe_integers ==
    /\ HostIdle
    /\ \E toggle \in BOOLEAN : default_safe_integers' = toggle
    /\ HostAtomic("defaultSafeIntegers", "Ok")
    /\ UNCHANGED <<dbConn, autocommit, procVars, locks, objVars, taskVars,
                   chanVars>>

(***************************************************************************)
(* Statement handle                                                        *)
(***************************************************************************)

\* convert_params: an array is converted without a lock, an object through
\* convert_params_object, which takes the Statement's Mutex (blocking_lock)
\* to read the parameter names and drops it on return.
ParamKinds == {"array", "object"}

\* The kinds of host value a parameter can be; "missing" stands for a keyed
\* mapping with no entry under the declared name.
SupportedValues == {"number", "undefined"}
UnsupportedValues == {"boolean", "array", "composite"}
ParamValues == SupportedValues \cup UnsupportedValues
ParamArgs == (ParamKinds \X ParamValues) \cup {<<"object", "missing">>}
\* The params of a host program that passes a number for every parameter.
PlainArgs == ParamKinds \X {"number"}

\* (Variant with a slip: a boolean bound as the Integer 0 or 1.)
js_value_to_value_coercing(v) ==
    CASE v \in {"null", "undefined"} -> "Null"
      [] v = "array" -> "Panic"
      [] v = "boolean" -> "Integer"
      [] v = "number" -> "Real"
      [] v = "string" -> "Text"
      [] v = "bigint" -> "Integer"
      [] v = "uint8array" -> "Blob"
      [] OTHER -> "Panic"

\* js_value_to_value: the libsql::Value a host value is bound as; todo!()
\* panics for an array, a boolean and every other kind of value.
js_value_to_value(v) ==
    CASE v \in {"null", "undefined"} -> "Null"
      [] v = "array" -> "Panic"
      [] v = "boolean" -> "Panic"
      [] v = "number" -> "Real"
      [] v = "string" -> "Text"
      [] v = "bigint" -> "Integer"
      [] v = "uint8array" -> "Blob"
      [] OTHER -> "Panic"

\* convert_params_object: v.get(cx, &name[1..]) of a name the mapping does not
\* hold is the host's undefined.
Lookup(val) == IF val = "missing" THEN "undefined" ELSE val

\* convert_params: the value is converted by js_value_to_value (for a mapping,
\* after the lookup and with the Statement's Mutex held); a panic unwinds out
\* of the call, dropping the guard, and the host sees an exception.
convert_params(op) ==
    /\ host.op = op
    /\ host.pc = "params"
    /\ host.arg = "object" => CanLock(StmtLock(host.s))
    /\ IF js_value_to_value(Lookup(host.val)) = "Panic"
       THEN HostReturn("Panic")
       ELSE /\ calls' = calls
            /\ host' = [host EXCEPT !.pc = "lock", !.arg = "none",
                          !.val = IF host.val = "missing" THEN "null_for_missing"
                                                         ELSE "none"]
    /\ UNCHANGED <<dbVars, locks, objVars, taskVars, chanVars>>

\* The Rows struct: the engine's cursor, which steps the engine statement it
\* was made from, and the toggles copied from the Statement.
NewRows(s, raw, safe_ints) == [stmt |-> s, raw |-> raw, safe_ints |-> safe_ints]

\* (Variant with a slip: set_raw(toggle) done before the columns() check.)
js_raw_sets_first ==
    \/ /\ HostIdle
       /\ \E s \in StmtIds, toggle \in {"true", "false"} :
             HostBegin("raw", s, toggle, "lock")
       /\ UNCHANGED <<dbVars, locks, objVars, taskVars, chanVars>>
    \/ /\ host.op = "raw"
       /\ host.pc = "lock"
       /\ CanLock(StmtLock(host.s))
       /\ HostReturn(IF stmts[host.s].ncols = 0 THEN "Err" ELSE "Ok")
       /\ stmts' = [stmts EXCEPT ![host.s].raw = (host.arg = "true")]
       /\ UNCHANGED <<dbVars, locks, rows, taskVars, chanVars>>

\* Statement::js_raw: blocking_lock of the Statement, columns().is_empty()
\* throws, otherwise set_raw(toggle).
js_raw ==
    \/ /\ HostIdle
       /\ \E s \in StmtIds, toggle \in {"true", "false"} :
             HostBegin("raw", s, toggle, "lock")
       /\ UNCHANGED <<dbVars, locks, objVars, taskVars, chanVars>>
    \/ /\ host.op = "raw"
       /\ host.pc = "lock"
       /\ CanLock(StmtLock(host.s))
       /\ IF stmts[host.s].ncols = 0
          THEN /\ HostReturn("Err")
               /\ stmts' = stmts
          ELSE /\ HostReturn("Ok")
               /\ stmts' = [stmts EXCEPT ![host.s].raw = (host.arg = "true")]
       /\ UNCHANGED <<dbVars, locks, rows, taskVars, chanVars>>

\* Statement::js_run: convert_params, blocking_lock of the Statement, reset,
\* execute, and on success blocking_lock of the Connection for
\* last_insert_rowid() while the Statement's Mutex is still held.
js_run(args) ==
    \/ /\ HostIdle
       /\ \E s \in StmtIds, p \in args :
             HostBeginParams("run", s, p[1], p[2])
       /\ UNCHANGED <<dbVars, locks, objVars, taskVars, chanVars>>
    \/ convert_params("run")
    \/ HostAcquire("run")
    \/ /\ host.op = "run"
       /\ host.pc = "engine"
       /\ \/ /\ HostReturn("Err")
             /\ locks' = [locks EXCEPT ![StmtLock(host.s)] = Free]
          \/ /\ host' = [host EXCEPT !.pc = "lock2"]
             /\ UNCHANGED <<calls, locks>>
       /\ stmts' = stepped(host.s)
       /\ UNCHANGED <<dbVars, rows, taskVars, chanVars>>
    \/ /\ host.op = "run"
       /\ host.pc = "lock2"
       /\ CanLock(ConnLock)
       /\ HostReturn("Ok")
       /\ locks' = [locks EXCEPT ![StmtLock(host.s)] = Free]
       /\ UNCHANGED <<dbVars, objVars, taskVars, chanVars>>

\* (Variant with a slip: the Statement's guard kept by the `?` returns.)
js_get_guard_leaked(args) ==
    \/ /\ HostIdle
       /\ \E s \in StmtIds, p \in args :
             HostBeginParams("get", s, p[1], p[2])
       /\ UNCHANGED <<dbVars, locks, objVars, taskVars, chanVars>>
    \/ convert_params("get")
    \/ HostAcquire("get")
    \/ /\ host.op = "get"
       /\ host.pc = "engine"
       /\ \/ /\ HostReturn("Err")
             /\ stmts' = stmts
             /\ locks' = locks
          \/ /\ HostReturn("Err")
             /\ stmts' = stepped(host.s)
             /\ locks' = locks
          \/ /\ HostReturn(IF stmts[host.s].pos = "fresh" THEN "FirstRow"
                                                          ELSE "LaterRow")
             /\ stmts' = reset(host.s)
             /\ locks' = [locks EXCEPT ![StmtLock(host.s)] = Free]
          \/ /\ HostReturn("Undefined")
             /\ stmts' = reset(host.s)
             /\ locks' = [locks EXCEPT ![StmtLock(host.s)] = Free]
       /\ UNCHANGED <<dbVars, rows, taskVars, chanVars>>

\* Statement::js_get: convert_params, blocking_lock of the Statement, query
\* (with no reset before it), next, and raw_stmt.reset() only on the path
\* that reaches the end of the function: the three `?` returns (query failed,
\* next failed, convert_row failed) leave without it.  The row that next()
\* yields is the first one only if the engine statement was at its start.
\* The guard is dropped when the function returns.
js_get(args) ==
    \/ /\ HostIdle
       /\ \E s \in StmtIds, p \in args :
             HostBeginParams("get", s, p[1], p[2])
       /\ UNCHANGED <<dbVars, locks, objVars, taskVars, chanVars>>
    \/ convert_params("get")
    \/ HostAcquire("get")
    \/ /\ host.op = "get"
       /\ host.pc = "engine"
       /\ \/ /\ HostReturn("Err")            \* query(params) failed
             /\ stmts' = stmts
          \/ /\ HostReturn("Err")            \* next() or convert_row failed
             /\ stmts' = stepped(host.s)
          \/ /\ HostReturn(IF stmts[host.s].pos = "fresh" THEN "FirstRow"
                                                          ELSE "LaterRow")
             /\ stmts' = reset(host.s)
          \/ /\ HostReturn("Undefined")      \* next() yielded None
             /\ stmts' = reset(host.s)
       /\ locks' = [locks EXCEPT ![StmtLock(host.s)] = Free]
       /\ UNCHANGED <<dbVars, rows, taskVars, chanVars>>

\* Statement::js_rows_sync: convert_params, then lock, reset and query inside
\* one block_on; the Rows box copies raw from the Statement.
js_rows_sync(args) ==
    \/ /\ HostIdle
       /\ Len(rows) + Cardinality(Pending("rows")) < MaxRows
       /\ \E s \in StmtIds, p \in args :
             HostBeginParams("rowsSync", s, p[1], p[2])
       /\ UNCHANGED <<dbVars, locks, objVars, taskVars, chanVars>>
    \/ convert_params("rowsSync")
    \/ HostAcquire("rowsSync")
    \/ /\ host.op = "rowsSync"
       /\ host.pc = "engine"
       /\ \/ /\ HostReturn("Err")
             /\ rows' = rows
          \/ /\ HostReturn("Ok")
             /\ rows' = Append(rows, NewRows(host.s, stmts[host.s].raw, stmts[host.s].safe_ints))
       /\ locks' = [locks EXCEPT ![StmtLock(host.s)] = Free]
       /\ UNCHANGED <<dbVars, stmts, taskVars, chanVars>>

\* Statement::js_rows_async, the part on the host thread: convert_params,
\* blocking_lock of the Statement for the reset (dropped at once), then the
\* promise, the copy of raw, and rt.spawn.
js_rows_async(args) ==
    \/ /\ HostIdle
       /\ nTasks < MaxTasks
       /\ Len(rows) + Cardinality(Pending("rows")) < MaxRows
       /\ \E s \in StmtIds, p \in args :
             HostBeginParams("rowsAsync", s, p[1], p[2])
       /\ UNCHANGED <<dbVars, locks, objVars, taskVars, chanVars>>
    \/ convert_params("rowsAsync")
    \/ /\ host.op = "rowsAsync"
       /\ host.pc = "lock"
       /\ CanLock(StmtLock(host.s))
       /\ stmts' = reset(host.s)
       /\ Spawn("rows", host.s, "none", stmts[host.s].raw, stmts[host.s].safe_ints)
       /\ HostReturn("Promise")
       /\ UNCHANGED <<dbVars, locks, rows, chanVars>>

\* Statement::js_safe_integers: set_safe_integers(toggle) replaces this
\* Statement's safe_ints; no Mutex is taken.
js_safe_integers ==
    /\ HostIdle
    /\ \E s \in StmtIds, toggle \in BOOLEAN :
          stmts' = [stmts EXCEPT ![s].safe_ints = toggle]
    /\ HostAtomic("safeIntegers", "Ok")
    /\ UNCHANGED <<dbVars, locks, rows, taskVars, chanVars>>

\* Statement::js_columns: blocking_lock of the Statement, then the descriptors.
js_columns ==
    \/ /\ HostIdle
       /\ \E s \in StmtIds : HostBegin("columns", s, "none", "lock")
       /\ UNCHANGED <<dbVars, locks, objVars, taskVars, chanVars>>
    \/ /\ host.op = "columns"
       /\ host.pc = "lock"
       /\ CanLock(StmtLock(host.s))
       /\ HostReturn("Ok")
       /\ UNCHANGED <<dbVars, locks, objVars, taskVars, chanVars>>

(***************************************************************************)
(* Rows cursor                                                             *)
(***************************************************************************)
\* The shape of the rows js_next builds and the kind of host value it makes of
\* an Integer, chosen by the raw and safe_ints fields of the Rows struct.
RowShape(raw) == IF raw THEN "array" ELSE "object"
IntegerKind(safe_ints) == IF safe_ints THEN "bigint" ELSE "number"

\* Rows::js_next: rows.raw and rows.safe_ints are read, then
\* block_on(rows.next()) with no Mutex taken; the cursor steps the engine
\* statement it was made from.
js_next ==
    \/ /\ HostIdle
       /\ NewCall
       /\ \E r \in RowsIds :
             host' = [pc |-> "engine", op |-> "next", s |-> r,
                      arg |-> RowShape(rows[r].raw),
                      val |-> IntegerKind(rows[r].safe_ints),
                      closed |-> Closed, res |-> "none"]
       /\ UNCHANGED <<dbVars, locks, objVars, taskVars, chanVars>>
    \/ /\ host.op = "next"
       /\ host.pc = "engine"
       /\ \E out \in Outcomes : HostReturn(out)
       /\ stmts' = stepped(rows[host.s].stmt)
       /\ UNCHANGED <<dbVars, locks, rows, taskVars, chanVars>>

(***************************************************************************)
(* Conversions between host values and engine values                       *)
(***************************************************************************)
\* Integers beyond 32 bits are written as three limbs <<a, b, c>> standing
\* for a * 2^48 + b * 2^24 + c, with 0 <= b, c < 2^24 and a of either sign.
Limb == 2^24

Norm(a, b, c) ==
    LET c2 == c % Limb
        b1 == b + ((c - c2) \div Limb)
        b2 == b1 % Limb
    IN  <<a + ((b1 - b2) \div Limb), b2, c2>>

Pow2(e) ==
    IF e < 24 THEN <<0, 0, 2^e>>
    ELSE IF e < 48 THEN <<0, 2^(e - 24), 0>>
    ELSE <<2^(e - 48), 0, 0>>

Add(n, d) == Norm(n[1], n[2], n[3] + d)
Neg(n) == Norm(0 - n[1], 0 - n[2], 0 - n[3])
IsNeg(n) == n[1] < 0
Abs(n) == IF IsNeg(n) THEN Neg(n) ELSE n
Leq(n, m) ==
    \/ n[1] < m[1]
    \/ n[1] = m[1] /\ n[2] < m[2]
    \/ n[1] = m[1] /\ n[2] = m[2] /\ n[3] <= m[3]

\* Number of significant bits of a magnitude.
Bits(x) == CHOOSE k \in 0..30 : x < 2^k /\ (k = 0 \/ x >= 2^(k - 1))
BitLen(m) ==
    IF m[1] > 0 THEN 48 + Bits(m[1])
    ELSE IF m[2] > 0 THEN 24 + Bits(m[2])
    ELSE Bits(m[3])

\* The range of i64.
I64Min == Neg(Pow2(63))
I64Max == Add(Pow2(63), -1)
InI64(n) == Leq(I64Min, n) /\ Leq(n, I64Max)

\* (Variant with a slip: the lossless flag of the conversion not looked at.)
to_i64_wrapping(n) ==
    [val |-> <<((n[1] + 2^15) % 2^16) - 2^15, n[2], n[3]>>, lossless |-> TRUE]

\* JsBigInt::to_i64: the low 64 bits of the large integer read as a two's
\* complement i64, and whether that lost nothing.
to_i64(n) ==
    LET a == ((n[1] + 2^15) % 2^16) - 2^15
    IN  [val |-> <<a, n[2], n[3]>>, lossless |-> (a = n[1])]

\* js_value_to_value, the JsBigInt branch: to_i64(cx).or_throw(cx)? throws the
\* RangeError of a lossy conversion, otherwise the value is bound as Integer.
bigint_to_value(n) ==
    IF to_i64(n).lossless THEN <<"Integer", to_i64(n).val>>
                          ELSE <<"Throw", "RangeError">>

\* `v as f64` of an i64: the nearest double, ties to the even mantissa,
\* written as the integer that double is.
as_f64(n) ==
    LET m == Abs(n)
        L == BitLen(m)
    IN  IF L <= 53 THEN n
        ELSE LET unit == 2^(L - 53)
                 low == m[3] % unit
                 odd == (m[3] \div unit) % 2 = 1
                 up == low > unit \div 2 \/ (low = unit \div 2 /\ odd)
                 r == Norm(m[1], m[2], m[3] - low + (IF up THEN unit ELSE 0))
             IN  IF IsNeg(n) THEN Neg(r) ELSE r

\* The host value of one column value (the match of convert_row and of
\* convert_row_raw): an Integer becomes a BigInt under safe_ints and a number
\* otherwise.
column_to_js(safe_ints, v) ==
    CASE v[1] = "Null" -> <<"null", v[2]>>
      [] v[1] = "Integer" -> IF safe_ints THEN <<"bigint", v[2]>>
                                          ELSE <<"number", as_f64(v[2])>>
      [] v[1] = "Real" -> <<"number", v[2]>>
      [] v[1] = "Text" -> <<"string", v[2]>>
      [] v[1] = "Blob" -> <<"arraybuffer", v[2]>>

\* convert_row: the row as an object keyed by column name.
convert_row(safe_ints, v) == <<"object", column_to_js(safe_ints, v)>>

\* (Variant with a slip: the raw shape converting every Integer to a number.)
convert_row_raw_lossy(safe_ints, v) == <<"array", column_to_js(FALSE, v)>>

\* convert_row_raw: the row as an array indexed by column position.
convert_row_raw(safe_ints, v) == <<"array", column_to_js(safe_ints, v)>>

\* The choice js_get and js_next make between the two shapes.
row_to_js(raw, safe_ints, v) ==
    IF raw THEN convert_row_raw(safe_ints, v) ELSE convert_row(safe_ints, v)

\* The arms of the match of convert_sqlite_code, in the order of the source:
\* the primary result code, the extension above its low byte (the engine's
\* extended code is primary + 256 * extension), and the symbol.
SqliteCodes ==
    << <<0, 0, "SQLITE_OK">>,
       <<1, 0, "SQLITE_ERROR">>,
       <<2, 0, "SQLITE_INTERNAL">>,
       <<3, 0, "SQLITE_PERM">>,
       <<4, 0, "SQLITE_ABORT">>,
       <<5, 0, "SQLITE_BUSY">>,
       <<6, 0, "SQLITE_LOCKED">>,
       <<7, 0, "SQLITE_NOMEM">>,
       <<8, 0, "SQLITE_READONLY">>,
       <<9, 0, "SQLITE_INTERRUPT">>,
       <<10, 0, "SQLITE_IOERR">>,
       <<11, 0, "SQLITE_CORRUPT">>,
       <<12, 0, "SQLITE_NOTFOUND">>,
       <<13, 0, "SQLITE_FULL">>,
       <<14, 0, "SQLITE_CANTOPEN">>,
       <<15, 0, "SQLITE_PROTOCOL">>,
       <<16, 0, "SQLITE_EMPTY">>,
       <<17, 0, "SQLITE_SCHEMA">>,
       <<18, 0, "SQLITE_TOOBIG">>,
       <<19, 0, "SQLITE_CONSTRAINT">>,
       <<20, 0, "SQLITE_MISMATCH">>,
       <<21, 0, "SQLITE_MISUSE">>,
       <<22, 0, "SQLITE_NOLFS">>,
       <<23, 0, "SQLITE_AUTH">>,
       <<24, 0, "SQLITE_FORMAT">>,
       <<25, 0, "SQLITE_RANGE">>,
       <<26, 0, "SQLITE_NOTADB">>,
       <<27, 0, "SQLITE_NOTICE">>,
       <<28, 0, "SQLITE_WARNING">>,
       <<100, 0, "SQLITE_ROW">>,
       <<101, 0, "SQLITE_DONE">>,
       <<10, 1, "SQLITE_IOERR_READ">>,
       <<10, 2, "SQLITE_IOERR_SHORT_READ">>,
       <<10, 3, "SQLITE_IOERR_WRITE">>,
       <<10, 4, "SQLITE_IOERR_FSYNC">>,
       <<10, 5, "SQLITE_IOERR_DIR_FSYNC">>,
       <<10, 6, "SQLITE_IOERR_TRUNCATE">>,
       <<10, 7, "SQLITE_IOERR_FSTAT">>,
       <<10, 8, "SQLITE_IOERR_UNLOCK">>,
       <<10, 9, "SQLITE_IOERR_RDLOCK">>,
       <<10, 10, "SQLITE_IOERR_DELETE">>,
       <<10, 11, "SQLITE_IOERR_BLOCKED">>,
       <<10, 12, "SQLITE_IOERR_NOMEM">>,
       <<10, 13, "SQLITE_IOERR_ACCESS">>,
       <<10, 14, "SQLITE_IOERR_CHECKRESERVEDLOCK">>,
       <<10, 15, "SQLITE_IOERR_LOCK">>,
       <<10, 16, "SQLITE_IOERR_CLOSE">>,
       <<10, 17, "SQLITE_IOERR_DIR_CLOSE">>,
       <<10, 18, "SQLITE_IOERR_SHMOPEN">>,
       <<10, 19, "SQLITE_IOERR_SHMSIZE">>,
       <<10, 20, "SQLITE_IOERR_SHMLOCK">>,
       <<10, 21, "SQLITE_IOERR_SHMMAP">>,
       <<10, 22, "SQLITE_IOERR_SEEK">>,
       <<10, 23, "SQLITE_IOERR_DELETE_NOENT">>,
       <<10, 24, "SQLITE_IOERR_MMAP">>,
       <<10, 25, "SQLITE_IOERR_GETTEMPPATH">>,
       <<10, 26, "SQLITE_IOERR_CONVPATH">>,
       <<10, 27, "SQLITE_IOERR_VNODE">>,
       <<10, 28, "SQLITE_IOERR_AUTH">>,
       <<6, 1, "SQLITE_LOCKED_SHAREDCACHE">>,
       <<5, 1, "SQLITE_BUSY_RECOVERY">>,
       <<5, 2, "SQLITE_BUSY_SNAPSHOT">>,
       <<14, 1, "SQLITE_CANTOPEN_NOTEMPDIR">>,
       <<14, 2, "SQLITE_CANTOPEN_ISDIR">>,
       <<14, 3, "SQLITE_CANTOPEN_FULLPATH">>,
       <<14, 4, "SQLITE_CANTOPEN_CONVPATH">>,
       <<11, 1, "SQLITE_CORRUPT_VTAB">>,
       <<8, 1, "SQLITE_READONLY_RECOVERY">>,
       <<8, 2, "SQLITE_READONLY_CANTLOCK">>,
       <<8, 3, "SQLITE_READONLY_ROLLBACK">>,
       <<8, 4, "SQLITE_READONLY_DBMOVED">>,
       <<4, 2, "SQLITE_ABORT_ROLLBACK">>,
       <<19, 1, "SQLITE_CONSTRAINT_CHECK">>,
       <<19, 2, "SQLITE_CONSTRAINT_COMMITHOOK">>,
       <<19, 3, "SQLITE_CONSTRAINT_FOREIGNKEY">>,
       <<19, 4, "SQLITE_CONSTRAINT_FUNCTION">>,
       <<19, 5, "SQLITE_CONSTRAINT_NOTNULL">>,
       <<19, 6, "SQLITE_CONSTRAINT_PRIMARYKEY">>,
       <<19, 7, "SQLITE_CONSTRAINT_TRIGGER">>,
       <<19, 8, "SQLITE_CONSTRAINT_UNIQUE">>,
       <<19, 9, "SQLITE_CONSTRAINT_VTAB">>,
       <<19, 10, "SQLITE_CONSTRAINT_ROWID">>,
       <<27, 1, "SQLITE_NOTICE_RECOVER_WAL">>,
       <<27, 2, "SQLITE_NOTICE_RECOVER_ROLLBACK">>,
       <<28, 1, "SQLITE_WARNING_AUTOINDEX">>,
       <<23, 1, "SQLITE_AUTH_USER">>,
       <<0, 1, "SQLITE_OK_LOAD_PERMANENTLY">> >>

CodeOf(arm) == arm[1] + 256 * arm[2]
Recognised(code) == \E i \in 1..Len(SqliteCodes) : CodeOf(SqliteCodes[i]) = code

\* (Variant with a slip: the fallback arm without the code in it.)
convert_sqlite_code_fixed_fallback(code) ==
    IF Recognised(code)
    THEN SqliteCodes[CHOOSE i \in 1..Len(SqliteCodes) :
                         CodeOf(SqliteCodes[i]) = code][3]
    ELSE "UNKNOWN_SQLITE_ERROR"

\* convert_sqlite_code: the symbol of the first arm that matches, and for any
\* other code format!("UNKNOWN_SQLITE_ERROR_{}", code).
convert_sqlite_code(code) ==
    IF Recognised(code)
    THEN SqliteCodes[CHOOSE i \in 1..Len(SqliteCodes) :
                         /\ CodeOf(SqliteCodes[i]) = code
                         /\ \A j \in 1..(i - 1) : CodeOf(SqliteCodes[j]) # code][3]
    ELSE "UNKNOWN_SQLITE_ERROR_" \o ToString(code)

\* The exceptions the host sees.  A field that the error object does not have
\* is << >>, a field that it has is the one-element tuple of its value.
\* cx.throw_error(msg): a plain Error with its message and nothing else.
throw_error(msg) == [message |-> msg, code |-> << >>, rawCode |-> << >>]

\* A panic (unwrap of None, todo!()) and the or_throw / downcast_or_throw of
\* the binding layer also reach the host as an Error with a message only.
panic(msg) == [message |-> msg, code |-> << >>, rawCode |-> << >>]
or_throw(msg) == [message |-> msg, code |-> << >>, rawCode |-> << >>]

\* The variants of libsql::Error the bridge can be handed.
ErrKinds == {"SqliteFailure", "ConnectionFailed", "Misuse", "Replication"}

\* (Variant with a slip: the code field left out of the arm for the errors
\* that are not a SqliteFailure.)
throw_libsql_error_no_code(kind, code) ==
    IF kind = "SqliteFailure"
    THEN [message |-> kind, code |-> <<convert_sqlite_code(code)>>,
          rawCode |-> <<code>>]
    ELSE [message |-> kind, code |-> << >>, rawCode |-> << >>]

\* throw_libsql_error: a SqliteFailure carries rawCode and the translated
\* code; every other libsql::Error carries the code "" and no rawCode.
throw_libsql_error(kind, code) ==
    IF kind = "SqliteFailure"
    THEN [message |-> kind, code |-> <<convert_sqlite_code(code)>>,
          rawCode |-> <<code>>]
    ELSE [message |-> kind, code |-> <<"">>, rawCode |-> << >>]

\* The lines of the source at which a failure leaves the bridge, and how.
TranslatedAt == {52, 55, 92, 124, 143, 159, 178, 194, 228, 440, 460, 463, 492,
                 533, 612, 685, 716}
ThrowErrorAt == {15, 89, 419}
PanicAt == {100, 251, 390, 392, 410}
OrThrowAt == {403, 639}
FailureLines == TranslatedAt \cup ThrowErrorAt \cup PanicAt \cup OrThrowAt

\* The exception that leaves the bridge at a line, for the failure it was
\* handed there: only line 89 (open_with_remote_sync_internal failed) is
\* handed a libsql::Error without passing it to throw_libsql_error.
Thrown(line, kind, code) ==
    CASE line \in TranslatedAt -> throw_libsql_error(kind, code)
      [] line \in ThrowErrorAt -> throw_error(kind)
      [] line \in PanicAt -> panic(kind)
      [] line \in OrThrowAt -> or_throw(kind)

(***************************************************************************)
(* Background tasks and the completion channel                             *)
(***************************************************************************)
\* deferred.settle_with(&channel, closure): one closure is sent, for the
\* task's own deferred, carrying the task's own result.
\* (Variants with a slip: the Err arm without its settle_with; the Err arm
\* whose closure forgets to throw.)
SettleWith_ErrArmSilent(t, out) ==
    IF out = "Ok" THEN << [deferred |-> t, from |-> t, ok |-> TRUE] >> ELSE << >>
SettleWith_ErrSwallowed(t, out) == << [deferred |-> t, from |-> t, ok |-> TRUE] >>

SettleWith(t, out) == << [deferred |-> t, from |-> t, ok |-> (out = "Ok")] >>

\* The host object an async call of this kind settles its promise with.
ResultObject(kind, ok) ==
    IF ~ok THEN "Error"
    ELSE CASE kind = "prepare" -> "Statement"
           [] kind = "rows" -> "Rows"
           [] OTHER -> "undefined"

\* (Variant with a slip: the result boxed in the spawned future.)
HostObjectsMadeAt_InFuture(step, kind, ok) ==
    IF step = "future" THEN {ResultObject(kind, ok)} ELSE {}

\* Where the host objects of an async call are made (cx.undefined, cx.boxed,
\* throw_libsql_error): none in the spawned future, all of them inside the
\* closure that settle_with runs on the host thread.
HostObjectsMadeAt(step, kind, ok) ==
    IF step = "closure" THEN {ResultObject(kind, ok)} ELSE {}

\* The spawned future gets its Mutex (lock().await) and starts the engine call.
TaskAcquire(t) ==
    /\ task[t].pc = "waiting"
    /\ CanLock(TaskLock(task[t].kind, task[t].s))
    /\ locks' = [locks EXCEPT ![TaskLock(task[t].kind, task[t].s)] = TaskT(t)]
    /\ task' = [task EXCEPT ![t].pc = "engine"]
    /\ UNCHANGED <<calls, dbVars, objVars, nTasks, promise, chanVars, host>>

\* (Variant with a slip: the guard of the engine call never dropped.)
TaskFinish_guard_kept(t) ==
    /\ task[t].pc = "engine"
    /\ \E out \in Outcomes, n \in {0, 1} :
          /\ task[t].kind # "prepare" => n = 0
          /\ out = "Err" => n = 0
          /\ IF task[t].kind = "exec"
             THEN \E r \in execute_batch(task[t].sql, autocommit) :
                     r[1] = out /\ autocommit' = r[2]
             ELSE autocommit' = autocommit
          /\ task' = [task EXCEPT ![t].pc = "done", ![t].outcome = out,
                                  ![t].ncols = n]
          /\ channel' = channel \o SettleWith(t, out)
          /\ hostObjs' = [hostObjs EXCEPT ![t] = @ \cup
                ({"worker"} \X HostObjectsMadeAt("future", task[t].kind, out = "Ok"))]
    /\ locks' = locks
    /\ UNCHANGED <<calls, dbConn, default_safe_integers, procVars, objVars,
                   nTasks, promise, delivered, host>>

\* The engine call ends, the closure is sent and the guard is dropped.
TaskFinish(t) ==
    /\ task[t].pc = "engine"
    /\ \E out \in Outcomes, n \in {0, 1} :
          /\ task[t].kind # "prepare" => n = 0
          /\ out = "Err" => n = 0
          /\ IF task[t].kind = "exec"
             THEN \E r \in execute_batch(task[t].sql, autocommit) :
                     r[1] = out /\ autocommit' = r[2]
             ELSE autocommit' = autocommit
          /\ task' = [task EXCEPT ![t].pc = "done", ![t].outcome = out,
                                  ![t].ncols = n]
          /\ channel' = channel \o SettleWith(t, out)
          /\ hostObjs' = [hostObjs EXCEPT ![t] = @ \cup
                ({"worker"} \X HostObjectsMadeAt("future", task[t].kind, out = "Ok"))]
    /\ locks' = [locks EXCEPT ![TaskLock(task[t].kind, task[t].s)] = Free]
    /\ UNCHANGED <<calls, dbConn, default_safe_integers, procVars, objVars,
                   nTasks, promise, delivered, host>>

\* (Variant with a slip: the toggles read from the Statement when the closure
\* runs.)
SettledRows_read_at_completion(src) ==
    NewRows(src.s, stmts[src.s].raw, stmts[src.s].safe_ints)

\* The Rows struct built by the closure of js_rows_async: raw and safe_ints
\* are the copies moved into the future before rt.spawn.
SettledRows(src) == NewRows(src.s, src.raw, src.safe_ints)

\* The host thread, between two calls, runs the next closure of the channel:
\* it makes the result (undefined, the boxed Statement, the boxed Rows or the
\* error thrown by throw_libsql_error) and settles the deferred with it.
HostCallback ==
    /\ HostIdle
    /\ channel # << >>
    /\ LET m == Head(channel)
           src == task[m.from]
       IN  /\ promise' = [promise EXCEPT ![m.deferred] =
                             IF m.ok THEN "fulfilled" ELSE "rejected"]
           /\ delivered' = [delivered EXCEPT ![m.deferred] = Append(@, m.from)]
           /\ hostObjs' = [hostObjs EXCEPT ![m.from] = @ \cup
                ({"host"} \X HostObjectsMadeAt("closure", src.kind, m.ok))]
           /\ stmts' = IF m.ok /\ src.kind = "prepare"
                       THEN Append(stmts, NewStatement(src.ncols, src.safe_ints)) ELSE stmts
           /\ rows' = IF m.ok /\ src.kind = "rows"
                      THEN Append(rows, SettledRows(src)) ELSE rows
           /\ task' = [task EXCEPT ![m.from] =
                          [NoTask EXCEPT !.pc = "done", !.outcome = src.outcome,
                                         !.era = src.era]]
    /\ channel' = Tail(channel)
    /\ UNCHANGED <<calls, dbVars, locks, nTasks, host>>

\* The host call has returned to the host program, which goes back to its
\* event loop: the next call or the next completion closure can run.
HostResume ==
    /\ host.pc = "returned"
    /\ host' = IdleHost
    /\ UNCHANGED <<calls, dbVars, locks, objVars, taskVars, chanVars>>

(***************************************************************************)
(* Specifications                                                          *)
(***************************************************************************)
HostCall ==
    \/ js_close
    \/ js_in_transaction
    \/ js_sync_sync
    \/ js_sync_async
    \/ js_exec_sync(PlainSql)
    \/ js_exec_async(PlainSql)
    \/ js_prepare_sync
    \/ js_prepare_async
    \/ js_raw
    \/ js_run(PlainArgs)
    \/ js_get(PlainArgs)
    \/ js_rows_sync(PlainArgs)
    \/ js_rows_async(PlainArgs)
    \/ js_columns
    \/ js_next

TaskStep == \E t \in Tasks : TaskAcquire(t) \/ TaskFinish(t)

Next == HostCall \/ HostResume \/ TaskStep \/ HostCallback

Spec == Init /\ [][Next]_vars

\* The same program with the two safe-integer setters among the calls the
\* host program makes.
ToggleCall == js_default_safe_integers \/ js_safe_integers

ToggleNext == HostCall \/ ToggleCall \/ HostResume \/ TaskStep \/ HostCallback

ToggleSpec == Init /\ [][ToggleNext]_vars

\* The process from the moment the module is loaded: the host program opens a
\* Database, again if the open failed, and then calls it.
OpenInit == Loaded /\ conv = NoConv

OpenCall == js_open \/ js_open_with_rpc_sync

OpenNext == OpenCall \/ HostCall \/ HostResume \/ TaskStep \/ HostCallback

OpenSpec == OpenInit /\ [][OpenNext]_vars

\* The same program called by a host program that begins and commits
\* transactions with exec.
TxnCall == js_exec_sync(TxnSql) \/ js_exec_async(TxnSql)

TxnNext == HostCall \/ TxnCall \/ HostResume \/ TaskStep \/ HostCallback

TxnSpec == Init /\ [][TxnNext]_vars

\* The same program called by a host program that passes every kind of
\* parameter value.
ParamCall ==
    \/ js_run(ParamArgs)
    \/ js_get(ParamArgs)
    \/ js_rows_sync(ParamArgs)
    \/ js_rows_async(ParamArgs)

ParamNext == HostCall \/ ParamCall \/ HostResume \/ TaskStep \/ HostCallback

ParamSpec == Init /\ [][ParamNext]_vars

\* The conversion functions on their own: one evaluation of one function on
\* one input.  The large integers are those within MaxDelta of a power of two
\* at which a width or a precision ends, of either sign; the status codes are
\* the i32 values from a few negative ones up to MaxCode.
Exponents == {0, 31, 52, 53, 54, 55, 62, 63, 64}
BigSamples ==
    UNION {{Add(Pow2(e), d), Neg(Add(Pow2(e), d))} :
              e \in Exponents, d \in (0 - MaxDelta)..MaxDelta}
ColumnSamples ==
    {<<"Integer", n>> : n \in {m \in BigSamples : InI64(m)}}
        \cup {<<"Null", <<0, 0, 0>>>>, <<"Real", <<0, 0, 1>>>>}
Codes == (0 - MaxDelta)..MaxCode

\* The failures: at a line that is handed a libsql::Error, every variant of
\* it (a SqliteFailure with a recognised or an unrecognised code); at the
\* other lines the one cause the line has.
LibsqlErrors ==
    {<<"SqliteFailure", code>> : code \in {1, 19, 29, 2067}}
        \cup {<<k, 0>> : k \in ErrKinds \ {"SqliteFailure"}}
CauseAt(line) ==
    CASE line = 15 -> "RuntimeInit"
      [] line \in {100, 251} -> "ClosedDatabase"
      [] line \in {390, 392, 410, 403, 639} -> "Binding"
      [] line = 419 -> "RawWithoutColumns"
Failures ==
    {<<line, e[1], e[2]>> : line \in TranslatedAt \cup {89}, e \in LibsqlErrors}
        \cup {<<line, CauseAt(line), 0>> : line \in FailureLines \ (TranslatedAt \cup {89})}

ConvInputs ==
    {[fn |-> "js_value_to_value", in |-> n, out |-> << >>, done |-> FALSE] :
        n \in BigSamples}
    \cup {[fn |-> "row_to_js", in |-> <<raw, safe, v>>, out |-> << >>,
           done |-> FALSE] :
             raw \in BOOLEAN, safe \in BOOLEAN, v \in ColumnSamples}
    \cup {[fn |-> "convert_sqlite_code", in |-> <<code>>, out |-> << >>,
           done |-> FALSE] : code \in Codes}
    \cup {[fn |-> "throw", in |-> f, out |-> << >>, done |-> FALSE] :
             f \in Failures}

ConvInit == Constructed /\ conv \in ConvInputs

progVars == <<calls, dbConn, default_safe_integers, autocommit, RUNTIME,
              nRuntimes, locks, stmts, rows, task, nTasks, channel, promise,
              delivered, hostObjs, host>>

\* js_value_to_value is given a JsBigInt.
BindBigInt ==
    /\ conv.fn = "js_value_to_value"
    /\ ~conv.done
    /\ conv' = [conv EXCEPT !.out = bigint_to_value(conv.in), !.done = TRUE]
    /\ UNCHANGED progVars

\* js_get or js_next turns a fetched row into its host value.
RowToHost ==
    /\ conv.fn = "row_to_js"
    /\ ~conv.done
    /\ conv' = [conv EXCEPT !.out = row_to_js(conv.in[1], conv.in[2], conv.in[3]),
                            !.done = TRUE]
    /\ UNCHANGED progVars

\* throw_libsql_error translates the code of a SqliteFailure.
TranslateCode ==
    /\ conv.fn = "convert_sqlite_code"
    /\ ~conv.done
    /\ conv' = [conv EXCEPT !.out = <<convert_sqlite_code(conv.in[1])>>,
                            !.done = TRUE]
    /\ UNCHANGED progVars

\* A failure leaves the bridge as an exception of the host.
ThrowAt ==
    /\ conv.fn = "throw"
    /\ ~conv.done
    /\ conv' = [conv EXCEPT !.out = <<Thrown(conv.in[1], conv.in[2], conv.in[3])>>,
                            !.done = TRUE]
    /\ UNCHANGED progVars

ConvNext == BindBigInt \/ RowToHost \/ TranslateCode \/ ThrowAt

ConvSpec == ConvInit /\ [][ConvNext]_vars

\* Every step but the start of a new host call.
Progress == Next /\ calls' = calls

\* The tokio workers, the blocked host thread and the completion channel all
\* keep running: a step that is not a new host call is not postponed for ever.
FairSpec == Spec /\ WF_vars(Progress)

(***************************************************************************)
(* Views of the state used by the properties                               *)
(***************************************************************************)
Settled(t) == promise[t] \in {"fulfilled", "rejected"}

\* A background task of one of these kinds is inside its engine call.
TaskIn(t, kinds) == task[t].pc = "engine" /\ task[t].kind \in kinds

\* The host thread is inside the engine call of one of these operations.
HostIn(ops) == host.pc = "engine" /\ host.op \in ops

\* The host thread is stopped in lock().await / blocking_lock() on a Mutex
\* that somebody else holds.
HostBlocked ==
    \/ /\ host.pc = "params"
       /\ host.arg = "object"
       /\ ~CanLock(StmtLock(host.s))
    \/ /\ host.pc = "lock"
       /\ ~CanLock(HostLock(host.op, host.s))
    \/ /\ host.pc = "lock2"
       /\ ~CanLock(ConnLock)

\* The exec and prepare calls (sync and async) that are inside execute_batch
\* or prepare, and those that are waiting for the Connection's Mutex.
ExecPrepareRunning ==
    {TaskT(t) : t \in {u \in Tasks : TaskIn(u, {"exec", "prepare"})}}
        \cup (IF HostIn({"execSync", "prepareSync"}) THEN {HostT} ELSE {})
ExecPrepareWaiting ==
    {TaskT(t) : t \in {u \in Tasks : task[u].pc = "waiting"
                                      /\ task[u].kind \in {"exec", "prepare"}}}
        \cup (IF host.pc = "lock" /\ host.op \in {"execSync", "prepareSync"}
              THEN {HostT} ELSE {})

DatabaseOps == {"execSync", "execAsync", "prepareSync", "prepareAsync",
                "syncSync", "inTransaction"}
StatementOps == {"run", "get", "rowsSync", "rowsAsync", "raw", "columns", "next"}
AsyncOps == {"syncAsync", "execAsync", "prepareAsync", "rowsAsync"}
InFlightEras == {"closed_while_waiting", "closed_in_engine", "closed_after_engine"}

(***************************************************************************)
(* Properties                                                              *)
(***************************************************************************)
\* C1: every operation issued on a Database after close() fails with the
\* closed-resource failure (the unwrap of db.conn): a blocking one returns
\* nothing else, and a sync() issued after close() never reaches the engine.
C1_ClosedDatabaseRejectsAll ==
    /\ (host.pc = "returned" /\ host.closed /\ host.op \in DatabaseOps)
          => host.res = "Panic"
    /\ (host.closed /\ host.op \in DatabaseOps) => host.pc # "engine"
    /\ \A t \in Tasks : (task[t].kind = "sync" /\ task[t].era = "closed")
          => task[t].pc # "engine"

\* C2: once close() has been called on the owning Database, every later run,
\* get, rows, raw, columns call on a Statement and every later next() on a
\* cursor fails instead of executing against the Connection.
C2_ClosedStatementRejectsAll ==
    /\ (host.closed /\ host.op \in StatementOps)
          => /\ host.pc \notin {"engine", "lock2"}
             /\ host.pc = "returned" => host.res = "Panic"
    /\ \A t \in Tasks : (task[t].kind = "rows" /\ task[t].era = "closed")
          => task[t].pc # "engine"

\* C3: an exec or prepare call (sync or async) that is inside its engine call
\* holds the Connection's Mutex, so at most one of them is inside its engine
\* call at any moment.
C3_ExecPrepareSerialized ==
    /\ \A th \in ExecPrepareRunning : locks[ConnLock] = th
    /\ Cardinality(ExecPrepareRunning) <= 1

\* C3 witness: one exec/prepare call is inside its engine call while another
\* one waits for the Connection's Mutex.
C3_Witness == ExecPrepareRunning # {} /\ ExecPrepareWaiting # {}

\* C4: two async rows() calls on two different Statements of one Connection
\* are never inside their query at the same time.
C4_RowsAsyncExclusive ==
    \A t1, t2 \in Tasks :
        (t1 # t2 /\ task[t1].s # task[t2].s)
            => ~(TaskIn(t1, {"rows"}) /\ TaskIn(t2, {"rows"}))

\* C5: a Rows.next() fetch runs with the Connection's Mutex held by it, and
\* never while an async exec or prepare is inside its engine call.
C5_NextHoldsConnLock ==
    HostIn({"next"})
        => /\ locks[ConnLock] = HostT
           /\ \A t \in Tasks : ~TaskIn(t, {"exec", "prepare"})

\* C6: the host-thread part of an async call (syncAsync, execAsync,
\* prepareAsync, rowsAsync) is never stopped waiting for a Mutex.
C6_AsyncNeverBlocksHost == host.op \in AsyncOps => ~HostBlocked

\* C7: an async operation that was in flight when close() was called still
\* runs its engine call to completion and its promise is settled with the
\* outcome of that engine call.
C7_InFlightSurvivesClose ==
    \A t \in Tasks :
        (task[t].era \in InFlightEras)
            ~> /\ task[t].outcome \in Outcomes
               /\ promise[t] = (IF task[t].outcome = "Ok" THEN "fulfilled"
                                                          ELSE "rejected")

\* C7 witness: a task that had not yet got its Mutex when close() was called
\* has run and its promise is settled.
C7_Witness ==
    \E t \in Tasks : task[t].era = "closed_while_waiting" /\ Settled(t)

\* C8: every promise returned by an async call is eventually settled, is
\* settled at most once, and once settled does not change.
C8_SettledExactlyOnce ==
    /\ \A t \in Tasks : (promise[t] = "pending") ~> Settled(t)
    /\ [](\A t \in Tasks : Len(delivered[t]) <= 1)
    /\ [][\A t \in Tasks : Settled(t) => promise'[t] = promise[t]]_vars

\* C8 witness: two async calls were in flight together and both promises are
\* settled, each once.
C8_Witness ==
    \E t1, t2 \in Tasks :
        /\ t1 # t2
        /\ Settled(t1) /\ Settled(t2)
        /\ Len(delivered[t1]) = 1 /\ Len(delivered[t2]) = 1

\* C9: a settled promise is fulfilled exactly when its own call's engine
\* operation succeeded and rejected exactly when it failed, and only the
\* call's own result is ever delivered to it.
C9_OwnOutcomeDelivered ==
    \A t \in Tasks :
        /\ Settled(t) => /\ promise[t] = "fulfilled" <=> task[t].outcome = "Ok"
                         /\ promise[t] = "rejected" <=> task[t].outcome = "Err"
        /\ \A i \in 1..Len(delivered[t]) : delivered[t][i] = t

\* C9 witness: of two async calls one succeeded and one failed, and the
\* promises are settled accordingly.
C9_Witness ==
    \E t1, t2 \in Tasks :
        /\ promise[t1] = "fulfilled" /\ task[t1].outcome = "Ok"
        /\ promise[t2] = "rejected" /\ task[t2].outcome = "Err"

\* C10: every host object produced by an async call (undefined, the boxed
\* Statement, the boxed Rows, the error) was made on the host thread.
C10_HostObjectsOnHostThread ==
    \A t \in Tasks : \A o \in hostObjs[t] : o[1] = "host"

\* C10 witness: a Statement, a Rows cursor or an error has been made for an
\* async call.
C10_Witness ==
    \E t \in Tasks : hostObjs[t] \cap ({"host"} \X {"Statement", "Rows", "Error"}) # {}

\* C11: a Statement's safe-integer toggle starts as the Database default read
\* when its prepare call was invoked (for prepareAsync: the value copied into
\* the spawned task, which no later step changes), and afterwards only
\* safeIntegers() on that Statement changes it; defaultSafeIntegers() changes
\* no toggle of an existing Statement, and safeIntegers() changes neither the
\* Database default nor another Statement.
C11_TogglesArePerStatement ==
    [][ /\ \A s \in StmtIds :
             /\ stmts'[s].safe_ints # stmts[s].safe_ints
                    => /\ host'.op = "safeIntegers"
                       /\ default_safe_integers' = default_safe_integers
                       /\ \A u \in StmtIds \ {s} : stmts'[u] = stmts[u]
             /\ stmts'[s].raw # stmts[s].raw => host.op = "raw"
        /\ default_safe_integers' # default_safe_integers
               => host'.op = "defaultSafeIntegers" /\ HostIdle
        /\ \A t \in Tasks :
             /\ (task[t].kind = "none" /\ task'[t].kind = "prepare")
                    => task'[t].safe_ints = default_safe_integers
             /\ (task[t].kind = "prepare" /\ task'[t].kind = "prepare")
                    => task'[t].safe_ints = task[t].safe_ints
        /\ Len(stmts') > Len(stmts)
               => stmts'[Len(stmts')].safe_ints =
                     (IF host.op = "prepareSync" THEN default_safe_integers
                      ELSE task[Head(channel).from].safe_ints)
      ]_vars

\* C11 witness: defaultSafeIntegers() has just changed the default away from
\* the toggle of a Statement prepared before, and a prepareAsync issued before
\* the change was still in flight.
C11_Witness ==
    /\ host.pc = "returned"
    /\ host.op = "defaultSafeIntegers"
    /\ \E s \in StmtIds : stmts[s].safe_ints # default_safe_integers
    /\ \E t \in Tasks : /\ task[t].kind = "prepare"
                         /\ promise[t] = "pending"
                         /\ task[t].safe_ints # default_safe_integers

\* C12: every run, get and rows call resets the statement before it executes
\* it: whenever one of them is inside its engine call (execute or query), the
\* engine statement was put back at its start by that call.
C12_EveryCallResetsFirst ==
    HostIn({"run", "get", "rowsSync"}) => stmts[host.s].pos = "fresh"

\* C13: get() never returns a later row of the execution, and whenever it
\* returns (a row, undefined or an error) the statement has been reset.
C13_GetFirstRowAndReset ==
    [][ (host.op = "get" /\ host.pc = "engine" /\ host'.pc = "returned")
            => /\ host'.res # "LaterRow"
               /\ stmts'[host.s].pos = "fresh"
      ]_vars

\* C14: between the end of run()'s execute and run()'s read of
\* last_insert_rowid() no other operation executes on the Connection: while
\* run() stands between the two, no background exec or prepare is inside its
\* engine call.
C14_RowidReadWithExecute ==
    (host.op = "run" /\ host.pc = "lock2")
        => \A t \in Tasks : ~TaskIn(t, {"exec", "prepare"})

\* C15: a keyed mapping that omits a declared parameter name makes run, get
\* and rows fail: the statement is never executed with a value put in the
\* place of the missing parameter.
C15_MissingNameRejected ==
    host.val = "null_for_missing" => host.pc \notin {"lock", "engine", "lock2"}

\* C16: raw(toggle) on a Statement without output columns throws and leaves
\* its raw toggle as it was, whatever the toggle; on a Statement with output
\* columns it sets raw to the toggle and changes nothing else.
C16_RawNeedsColumns ==
    [][ (host.op = "raw" /\ host.pc = "lock" /\ host'.pc = "returned")
            => /\ IF stmts[host.s].ncols = 0
                  THEN host'.res = "Err" /\ stmts' = stmts
                  ELSE /\ host'.res = "Ok"
                       /\ stmts' = [stmts EXCEPT ![host.s].raw = (host.arg = "true")]
               /\ rows' = rows
               /\ default_safe_integers' = default_safe_integers
               /\ locks' = locks
      ]_vars

\* C16 witness: raw() has just thrown on a Statement without output columns
\* while another Statement is in raw mode.
C16_Witness ==
    /\ host.pc = "returned"
    /\ host.op = "raw"
    /\ host.res = "Err"
    /\ \E s \in StmtIds : stmts[s].raw

\* C17: a boolean, an array or another composite value given as a parameter
\* makes the call fail with the panic of todo!(), which the host sees as an
\* exception: the value is bound as nothing, the statement is not executed,
\* no task is spawned and the host thread holds no Mutex afterwards.
C17_UnsupportedValueFails ==
    [][ (host.pc = "params" /\ host.val \in UnsupportedValues /\ host' # host)
            => /\ host'.pc = "returned"
               /\ host'.res = "Panic"
               /\ stmts' = stmts
               /\ nTasks' = nTasks
               /\ \A l \in LockIds : locks'[l] # HostT
      ]_vars

\* C17 witness: a run, get or rows call given an unsupported value has thrown
\* (a call on a Statement panics nowhere else).
C17_Witness ==
    /\ host.pc = "returned"
    /\ host.res = "Panic"
    /\ host.op \in {"run", "get", "rowsSync", "rowsAsync"}

\* C18: a large-integer parameter inside [-2^63, 2^63 - 1] is bound as that
\* very Integer; outside that range the call throws, and no Integer (wrapped,
\* truncated) nor Real is bound.
C18_BigIntExactOrRejected ==
    (conv.fn = "js_value_to_value" /\ conv.done)
        => IF InI64(conv.in) THEN conv.out = <<"Integer", conv.in>>
                             ELSE conv.out = <<"Throw", "RangeError">>

\* C18 witness: 2^63, the first integer above the range, has been rejected.
C18_Witness ==
    /\ conv.fn = "js_value_to_value"
    /\ conv.done
    /\ conv.in = Pow2(63)
    /\ conv.out[1] = "Throw"

\* The integers a double can hold: at most 53 significant bits.
Representable(r) ==
    LET m == Abs(r)
    IN  BitLen(m) <= 53 \/ m[3] % 2^(BitLen(m) - 53) = 0

\* r is a double and lies within half a unit in the last place of v.
Nearest(v, r) ==
    /\ Representable(r)
    /\ Representable(v) => r = v
    /\ LET L == BitLen(Abs(v))
       IN  Leq(Abs(Norm(v[1] - r[1], v[2] - r[2], v[3] - r[3])),
               <<0, 0, IF L <= 53 THEN 0 ELSE 2^(L - 54)>>)

\* C19: with safe integers on, an Integer column value comes back as the same
\* large integer; with safe integers off it comes back as the nearest double,
\* which for 2^53 + 1 is 2^53 or 2^53 + 2 and not the value itself; in the
\* object shape and in the array shape alike.
C19_SafeIntegersExact ==
    (conv.fn = "row_to_js" /\ conv.done /\ conv.in[3][1] = "Integer")
        => LET v == conv.in[3][2]
               js == conv.out[2]
           IN  /\ conv.out[1] = (IF conv.in[1] THEN "array" ELSE "object")
               /\ IF conv.in[2]
                  THEN js = <<"bigint", v>>
                  ELSE /\ js[1] = "number"
                       /\ Nearest(v, js[2])
                       /\ v = Add(Pow2(53), 1)
                             => /\ js[2] \in {Pow2(53), Add(Pow2(53), 2)}
                                /\ js[2] # v

\* C19 witness: 2^53 + 1 read in raw shape without safe integers came back as
\* the double 2^53.
C19_Witness ==
    /\ conv.fn = "row_to_js"
    /\ conv.done
    /\ conv.in = <<TRUE, FALSE, <<"Integer", Add(Pow2(53), 1)>>>>
    /\ conv.out = <<"array", <<"number", Pow2(53)>>>>

\* C20 as stated: a status code that no arm recognises is translated to
\* "UNKNOWN_" followed directly by the decimal code.
C20_UnknownCodeSymbol ==
    (conv.fn = "convert_sqlite_code" /\ conv.done /\ ~Recognised(conv.in[1]))
        => conv.out[1] = "UNKNOWN_" \o ToString(conv.in[1])

\* C20 as amended: every status code is translated to a symbol; a recognised
\* code to its SQLITE_ name, which for an extended code begins with the name
\* of its primary code, and any other code n to "UNKNOWN_SQLITE_ERROR_"
\* followed directly by the decimal code.
C20_EveryCodeTranslated ==
    (conv.fn = "convert_sqlite_code" /\ conv.done)
        => LET code == conv.in[1]
               sym == conv.out[1]
           IN  IF Recognised(code)
               THEN /\ SubSeq(sym, 1, 7) = "SQLITE_"
                    /\ code >= 256
                          => LET base == convert_sqlite_code(code % 256) \o "_"
                             IN  SubSeq(sym, 1, Len(base)) = base
               ELSE sym = "UNKNOWN_SQLITE_ERROR_" \o ToString(code)

\* C20 witness: the unrecognised code 29 has been translated to its
\* synthesized symbol.
C20_Witness ==
    /\ conv.fn = "convert_sqlite_code"
    /\ conv.done
    /\ conv.in = <<29>>
    /\ conv.out = <<"UNKNOWN_SQLITE_ERROR_29">>

\* C21: every failure that is not an engine status failure (a failed open or
\* openWithReplicaSync, a replication failure, a binding error, raw() on a
\* statement without columns, an operation on a closed Database) reaches the
\* host as an error object that has a code field equal to the empty string,
\* and a message.
C21_NonEngineErrorHasEmptyCode ==
    (conv.fn = "throw" /\ conv.done /\ conv.in[2] # "SqliteFailure")
        => /\ conv.out[1].code = <<"">>
           /\ conv.out[1].message # ""

\* An exec (sync or async) of this SQL ends successfully in this step.
ExecCompletes(sql) ==
    \/ /\ host.op = "execSync" /\ host.pc = "engine" /\ host.arg = sql
       /\ host'.pc = "returned" /\ host'.res = "Ok"
    \/ \E t \in Tasks :
          /\ TaskIn(t, {"exec"}) /\ task[t].sql = sql
          /\ task'[t].pc = "done" /\ task'[t].outcome = "Ok"

\* C22: the Connection starts in autocommit mode; it leaves it exactly when an
\* exec("BEGIN") completes and returns to it exactly when an exec("COMMIT")
\* completes, whatever other exec calls run in between; inTransaction()
\* returns true exactly when the Connection is not in autocommit mode and
\* changes nothing of the transaction state.
C22_InTransactionTracksAutocommit ==
    /\ autocommit = TRUE
    /\ [][ /\ (host.op = "inTransaction" /\ host.pc = "lock" /\ host'.pc = "returned")
                => /\ host'.res = (IF autocommit THEN "false" ELSE "true")
                   /\ autocommit' = autocommit
           /\ ExecCompletes("BEGIN") => ~autocommit'
           /\ ExecCompletes("COMMIT") => autocommit'
           /\ autocommit' # autocommit
                => ExecCompletes(IF autocommit THEN "BEGIN" ELSE "COMMIT")
         ]_vars

\* C22 witness: inTransaction() has returned false after an async BEGIN and
\* an async COMMIT have both completed.
C22_Witness ==
    /\ host.op = "inTransaction"
    /\ host.pc = "returned"
    /\ host.res = "false"
    /\ \E t1, t2 \in Tasks :
          /\ task[t1].sql = "BEGIN" /\ task[t1].outcome = "Ok"
          /\ task[t2].sql = "COMMIT" /\ task[t2].outcome = "Ok"

\* No call of the host thread is in progress and no background task is inside
\* its engine call.
Quiet == host.pc \in {"idle", "returned"} /\ \A t \in Tasks : task[t].pc # "engine"

\* C23: a Mutex is held only by an operation that is in progress: the host
\* thread holds none between two calls, whether the last one succeeded or
\* failed, a background task holds none before or after its engine call, and
\* when nothing is in progress every Mutex is free.
C23_LocksReleasedAtEnd ==
    /\ host.pc \in {"idle", "returned"} => \A l \in LockIds : locks[l] # HostT
    /\ \A t \in Tasks :
          task[t].pc # "engine" => \A l \in LockIds : locks[l] # TaskT(t)
    /\ Quiet => \A l \in LockIds : locks[l] = Free

\* C23 witness: a get() has just failed inside the engine, a background task
\* has failed too, and every Mutex is free.
C23_Witness ==
    /\ host.pc = "returned"
    /\ host.op = "get"
    /\ host.res = "Err"
    /\ \E t \in Tasks : task[t].pc = "done" /\ task[t].outcome = "Err"
    /\ \A l \in LockIds : locks[l] = Free

\* C25: between the reset of a rows() call and its query nothing else
\* executes on the same Statement: while an async rows() call has done its
\* reset and its task has not yet begun the query, the host thread is not
\* inside an engine call of a run, get or rows on that Statement, nor inside
\* a next() of a cursor of that Statement.
C25_ResetAndQueryInOneHold ==
    \A t \in Tasks :
        (task[t].kind = "rows" /\ task[t].pc = "waiting")
            => /\ ~(/\ host.pc \in {"engine", "lock2"}
                    /\ host.op \in {"run", "get", "rowsSync"}
                    /\ host.s = task[t].s)
               /\ ~(HostIn({"next"}) /\ rows[host.s].stmt = task[t].s)
               /\ stmts[task[t].s].pos = "fresh"

\* The Mutexes a thread owns, and the Mutex a stopped thread is asking for.
Holds(th) == {l \in LockIds : locks[l] = th}
HostWants ==
    IF host.pc = "params" /\ host.arg = "object" THEN {StmtLock(host.s)}
    ELSE IF host.pc = "lock" THEN {HostLock(host.op, host.s)}
    ELSE IF host.pc = "lock2" THEN {ConnLock}
    ELSE {}
TaskWants(t) ==
    IF task[t].pc = "waiting" THEN {TaskLock(task[t].kind, task[t].s)} ELSE {}
Threads == {HostT} \cup {TaskT(t) : t \in Tasks}
Wants(th) == IF th = HostT THEN HostWants ELSE TaskWants(th[2])

\* A thread that asks for a Mutex while it owns one owns a Statement's and
\* asks for the Connection's; the Database's Mutex is never part of a nesting.
LockOrder ==
    \A th \in Threads :
        /\ \A h \in Holds(th), w \in Wants(th) : h[1] = "stmt" /\ w = ConnLock
        /\ Cardinality(Holds(th)) <= 1
        /\ DbLock \in Holds(th) => Holds(th) = {DbLock}

\* C26: no interleaving of blocking calls with background tasks deadlocks:
\* Mutexes are nested only in the order Statement then Connection, a
\* background task never owns a Mutex outside its engine call (it sends its
\* result to the channel and waits for nobody), and every thread stopped at a
\* Mutex eventually gets it.
C26_NoDeadlock ==
    /\ [](LockOrder /\ \A t \in Tasks : task[t].pc # "engine" => Holds(TaskT(t)) = {})
    /\ HostBlocked ~> ~HostBlocked
    /\ \A t \in Tasks : (task[t].pc = "waiting") ~> (task[t].pc # "waiting")

\* C26 witness: run() owns its Statement's Mutex and is stopped at the
\* Connection's, which a background exec or prepare owns, while another
\* background task waits.
C26_Witness ==
    /\ host.op = "run"
    /\ host.pc = "lock2"
    /\ HostBlocked
    /\ \E t \in Tasks : TaskIn(t, {"exec", "prepare"})
    /\ \E t \in Tasks : task[t].pc = "waiting"

OpenOps == {"open", "openWithRpcSync"}

\* C24: there is no Runtime before the first open; at most one Runtime is
\* ever built, by the first call of runtime() that succeeds, and it is kept
\* from then on; every Database that exists was opened with it; a call whose
\* Runtime::new fails throws, boxes no Database and leaves the cell empty, so
\* that the next call builds the Runtime again.
C24_OneRuntime ==
    /\ RUNTIME = "empty"
    /\ [](/\ nRuntimes <= 1
          /\ RUNTIME = "set" <=> nRuntimes = 1
          /\ dbConn # "Unopened" => RUNTIME = "set")
    /\ [][ /\ nRuntimes' # nRuntimes
                => /\ RUNTIME = "empty"
                   /\ host.pc = "idle"
                   /\ host'.op \in OpenOps
           /\ RUNTIME = "set" => RUNTIME' = "set"
           /\ (host.pc = "idle" /\ host'.op \in OpenOps /\ RUNTIME' = "empty")
                => /\ host'.res = "RuntimeErr"
                   /\ dbConn' = "Unopened"
           /\ (host.pc = "idle" /\ host'.op \in OpenOps /\ host'.res = "RuntimeErr")
                => RUNTIME' = "empty"
         ]_vars

\* C24 witness: a second open has called Runtime::new again and it has failed
\* again (a first open that had built the Runtime would have left the cell
\* set): the cell is still empty and there is no Database.
C24_Witness ==
    /\ host.pc = "returned"
    /\ host.op \in OpenOps
    /\ host.res = "RuntimeErr"
    /\ calls = 2
    /\ RUNTIME = "empty"
    /\ dbConn = "Unopened"

\* C27: a Rows cursor keeps the raw and safe-integer toggles its Statement had
\* when rows() was called: a cursor made by the sync form has the toggles of
\* the Statement at that call, a cursor made by the async form has the copies
\* taken when the call was made (which nothing changes while the task runs),
\* no step changes the toggles of a cursor that exists, and next() shapes its
\* rows by the cursor's toggles, whatever raw() and safeIntegers() have done
\* to the Statement since.
C27_CursorKeepsToggles ==
    [][ /\ \A r \in RowsIds : rows'[r] = rows[r]
        /\ \A t \in Tasks :
             /\ (task[t].kind = "none" /\ task'[t].kind = "rows")
                    => /\ task'[t].raw = stmts[task'[t].s].raw
                       /\ task'[t].safe_ints = stmts[task'[t].s].safe_ints
             /\ (task[t].kind = "rows" /\ task'[t].kind = "rows")
                    => /\ task'[t].raw = task[t].raw
                       /\ task'[t].safe_ints = task[t].safe_ints
        /\ Len(rows') > Len(rows)
               => LET new == rows'[Len(rows')]
                      at_call == IF host.op = "rowsSync" THEN stmts[host.s]
                                 ELSE task[Head(channel).from]
                  IN  /\ new.raw = at_call.raw
                      /\ new.safe_ints = at_call.safe_ints
        /\ (host'.op = "next" /\ host'.pc = "engine")
               => /\ host'.arg = RowShape(rows[host'.s].raw)
                  /\ host'.val = IntegerKind(rows[host'.s].safe_ints)
      ]_vars

\* C27 witness: next() has returned on a cursor whose raw toggle differs from
\* the one its Statement has now.
C27_Witness ==
    /\ host.pc = "returned"
    /\ host.op = "next"
    /\ \E r \in RowsIds : rows[r].raw # stmts[rows[r].stmt].raw

====
